---------------------------- MODULE Spec2Model ----------------------------
(***************************************************************************)
(* Model of KrogerMatch.py: the price-enrichment run (authentication,      *)
(* store resolution, the per-row search loop with its pacing delay and     *)
(* KeyboardInterrupt handler, output assembly) and the pure functions it   *)
(* relies on (query-term construction, price extraction, the difflib       *)
(* similarity ratio).                                                      *)
(*                                                                         *)
(* Strings are sequences of one-character strings.  Prices are integers    *)
(* in cents (2.50 is 250).  A ratio is a pair num/den compared by cross    *)
(* multiplication, so no rounding enters a comparison.                     *)
(***************************************************************************)
EXTENDS Integers, Sequences, FiniteSets, TLC

VARIABLES
    pc,           \* position of the __main__ script
    token,        \* line 126
    location_id,  \* line 130
    catalog,      \* df_processing: the rows the loop iterates
    idx,          \* number of rows the iterator has yielded
    row,          \* the loop's current row: column -> value, and its index label
    brand,        \* line 139 / search_product parameter
    name,         \* line 140 / search_product parameter
    resp,         \* what session.get did for the current product search
    sp,           \* search_product's locals, kept when the call is examined alone
    ret,          \* (price, kroger_name, score) assigned at line 142
    results,      \* line 134: the accumulator; None before it is created
    output,       \* the table written to OUTPUT_CSV; None when none is
    interrupted,  \* the except KeyboardInterrupt clause ran
    inflight,     \* product-search requests issued and not yet answered
    log,          \* history: requests issued and pacing delays completed
    outcomes,     \* history: row index -> what search_product returned
    a,            \* first argument of SequenceMatcher
    b,            \* second argument of SequenceMatcher
    sim           \* the ratios computed for (a, b) and for (b, a)

vars == <<pc, token, location_id, catalog, idx, row, brand, name, resp, sp,
          ret, results, output, interrupted, inflight, log, outcomes,
          a, b, sim>>

\* Python values: None, a number, a string, a list; a dict key that is missing
None == [kind |-> "None"]
Absent == [kind |-> "absent"]
Num(n) == [kind |-> "num", val |-> n]
Str(s) == [kind |-> "str", val |-> s]
List(s) == [kind |-> "list", val |-> s]

\* bool(v), as `if v:` and `if not v:` evaluate it
Truthy(v) ==
    CASE v.kind = "None" -> FALSE
      [] v.kind = "num" -> v.val # 0
      [] v.kind = "str" -> v.val # <<>>
      [] v.kind = "list" -> v.val # <<>>

-----------------------------------------------------------------------------
(* Bounds of the explored input space.                                     *)

MaxRows == 2
MaxNameLen == 4
MaxSimLen == 3

-----------------------------------------------------------------------------
(* str methods used by search_product.                                     *)

UpperLetters == <<"A","B","C","D","E","F","G","H","I","J","K","L","M",
                  "N","O","P","Q","R","S","T","U","V","W","X","Y","Z">>
LowerLetters == <<"a","b","c","d","e","f","g","h","i","j","k","l","m",
                  "n","o","p","q","r","s","t","u","v","w","x","y","z">>

LowerChar(c) ==
    IF \E i \in 1..26 : UpperLetters[i] = c
    THEN LowerLetters[CHOOSE i \in 1..26 : UpperLetters[i] = c]
    ELSE c

\* str.lower()
Lower(s) == [i \in 1..Len(s) |-> LowerChar(s[i])]

\* str.replace(ch, '') for a one-character ch: every occurrence is removed
RECURSIVE RemoveChar(_, _)
RemoveChar(s, ch) ==
    IF s = <<>> THEN <<>>
    ELSE IF Head(s) = ch THEN RemoveChar(Tail(s), ch)
    ELSE <<Head(s)>> \o RemoveChar(Tail(s), ch)

\* str.find(sep) + 1: position of the first occurrence of sep, 0 when none
Find(s, sep) ==
    LET hits == {i \in 1..(Len(s) - Len(sep) + 1) :
                    SubSeq(s, i, i + Len(sep) - 1) = sep}
    IN  IF hits = {} THEN 0
        ELSE CHOOSE i \in hits : \A k \in hits : i <= k

\* str.split(sep)[0]: the text before the first occurrence of sep
SplitFirst(s, sep) ==
    IF Find(s, sep) = 0 THEN s ELSE SubSeq(s, 1, Find(s, sep) - 1)

-----------------------------------------------------------------------------
(* difflib.SequenceMatcher(None, x, y), for y shorter than 200 characters  *)
(* (below that length the autojunk heuristic is inactive and, isjunk being *)
(* None, no character is junk).                                            *)

\* The lengths k of the common blocks x[i..i+k) = y[j..j+k) inside
\* x[alo..ahi) and y[blo..bhi) (0-based, half-open, as in difflib).
CommonBlocks(x, y, alo, ahi, blo, bhi) ==
    {blk \in (alo..(ahi - 1)) \X (blo..(bhi - 1)) \X (1..(ahi - alo)) :
        /\ blk[1] + blk[3] <= ahi
        /\ blk[2] + blk[3] <= bhi
        /\ \A d \in 0..(blk[3] - 1) : x[blk[1] + d + 1] = y[blk[2] + d + 1]}

\* find_longest_match: the loop over i ascending and, through b2j, over j
\* ascending replaces the best block only when a strictly longer run ends at
\* (i, j); the result is a longest common block, of those the one starting
\* earliest in x, and of those the one starting earliest in y; (alo, blo, 0)
\* when there is none.
find_longest_match(x, y, alo, ahi, blo, bhi) ==
    LET blocks == CommonBlocks(x, y, alo, ahi, blo, bhi)
    IN  IF blocks = {} THEN <<alo, blo, 0>>
        ELSE CHOOSE m \in blocks :
                \A o \in blocks :
                    \/ m[3] > o[3]
                    \/ m[3] = o[3] /\ m[1] < o[1]
                    \/ m[3] = o[3] /\ m[1] = o[1] /\ m[2] <= o[2]

\* get_matching_blocks: the summed sizes of the blocks found by taking the
\* longest match and recursing on the pieces to its left and to its right.
RECURSIVE matching_size(_, _, _, _, _, _)
matching_size(x, y, alo, ahi, blo, bhi) ==
    LET m == find_longest_match(x, y, alo, ahi, blo, bhi)
        i == m[1]
        j == m[2]
        k == m[3]
    IN  IF k = 0 THEN 0
        ELSE k
             + (IF alo < i /\ blo < j
                THEN matching_size(x, y, alo, i, blo, j) ELSE 0)
             + (IF i + k < ahi /\ j + k < bhi
                THEN matching_size(x, y, i + k, ahi, j + k, bhi) ELSE 0)

\* A ratio normalised by the first string alone.
ratio_by_first_length(x, y) ==
    LET matches == matching_size(x, y, 0, Len(x), 0, Len(y))
    IN  IF Len(x) > 0 THEN [num |-> matches, den |-> Len(x)]
        ELSE [num |-> 1, den |-> 1]

\* ratio(): 2.0 * matches / (len(a) + len(b)), and 1.0 when both are empty
ratio(x, y) ==
    LET matches == matching_size(x, y, 0, Len(x), 0, Len(y))
        length == Len(x) + Len(y)
    IN  IF length > 0 THEN [num |-> 2 * matches, den |-> length]
        ELSE [num |-> 1, den |-> 1]

RatEq(p, q) == p.num * q.den = q.num * p.den
RatGt(p, q) == p.num * q.den > q.num * p.den

-----------------------------------------------------------------------------
(* search_product (lines 61-106).                                          *)

Quote == "\""
Comma == ","
Separator == <<" ", "-", " ">>

\* line 70: the brands that stand for "no brand"
GenericBrands == { <<"n","a","n">>,
                   <<"u","n","k","n","o","w","n">>,
                   <<"g","e","n","e","r","i","c">>,
                   <<"n","o","n","e">> }

\* line 66
clean_name(nm) == SplitFirst(RemoveChar(RemoveChar(nm, Quote), Comma), Separator)

\* A brand test that forgets .lower().
search_term_case_sensitive(br, nm) ==
    IF br \in GenericBrands
    THEN clean_name(nm)
    ELSE br \o <<" ">> \o clean_name(nm)

\* lines 66-73
search_term(br, nm) ==
    IF Lower(br) \in GenericBrands
    THEN clean_name(nm)
    ELSE br \o <<" ">> \o clean_name(nm)

\* line 87: product.get('description', 'Unknown'); a null description is None
found_name(product) ==
    IF product.description.kind = "absent"
    THEN Str(<<"U","n","k","n","o","w","n">>)
    ELSE product.description

\* lines 95-97: prices.get('promo', prices.get('regular', 0)); a product with
\* no 'items' or no 'price' key is one whose promo and regular are missing
extract_price(product) ==
    IF product.promo.kind # "absent" THEN product.promo
    ELSE IF product.regular.kind # "absent" THEN product.regular
    ELSE Num(0)

Threshold == [num |-> 2, den |-> 10]

\* round(match_score * 100, 1), in tenths of a percent, ties to even
round_score(r) ==
    LET n == 1000 * r.num
        q == n \div r.den
        rem == n % r.den
    IN  IF 2 * rem > r.den THEN q + 1
        ELSE IF 2 * rem = r.den THEN q + (q % 2)
        ELSE q

\* line 106
Rejected == [price |-> None, kroger_name |-> None, score |-> 0]

\* The answers of session.get that leave search_product without a candidate:
\* session.get raises (transport_error, timeout), the status is not 200,
\* r.json() raises (malformed), the data list is missing or empty.
FailureKinds == {"transport_error", "timeout", "non200", "malformed", "empty"}

\* lines 82-101, the body of the try: search_product's locals after it ran
\* against the answer r; raised: an exception left the body; returned: the
\* tuple of line 101, None when that line was not reached.
try_block(br, nm, r) ==
    LET term == search_term(br, nm)
        nothing == [search_term |-> Str(term), found_name |-> None,
                    match_score |-> None, price |-> None,
                    raised |-> r.kind \in {"transport_error", "timeout", "malformed"},
                    returned |-> None]
    IN  IF r.kind # "ok" THEN nothing
        ELSE IF found_name(r).kind # "str"
        THEN [nothing EXCEPT !.raised = TRUE]   \* None.lower(): AttributeError
        ELSE
          LET fname == found_name(r).val
              score == ratio(Lower(term), Lower(fname))
              price == extract_price(r)
              seen == [search_term |-> Str(term), found_name |-> Str(fname),
                       match_score |-> score, price |-> price,
                       raised |-> FALSE, returned |-> None]
          IN  IF price.kind # "num"
              THEN [seen EXCEPT !.raised = TRUE]   \* None > 0: TypeError
              ELSE IF price.val > 0 /\ RatGt(score, Threshold)
              THEN [seen EXCEPT !.returned = [price |-> price,
                                              kroger_name |-> Str(fname),
                                              score |-> round_score(score)]]
              ELSE seen

\* A handler that catches only the transport errors of the requests library.
search_product_narrow_except(br, nm, r) ==
    LET t == try_block(br, nm, r)
    IN  [locals |-> t,
         escaped |-> t.raised /\ r.kind \notin {"transport_error", "timeout"},
         ret |-> IF t.returned # None THEN t.returned ELSE Rejected]

\* lines 61-106: `except Exception: pass` catches whatever the body raised,
\* so no exception escapes to the caller, and line 106 returns the rejected
\* tuple whenever line 101 did not return.
search_product(br, nm, r) ==
    LET t == try_block(br, nm, r)
    IN  [locals |-> t,
         escaped |-> FALSE,
         ret |-> IF t.returned # None THEN t.returned ELSE Rejected]

-----------------------------------------------------------------------------
(* Inputs.                                                                 *)

LargeEggs12ct == <<"L","a","r","g","e"," ","E","g","g","s"," ","-"," ","1","2","c","t">>
LargeEggs == <<"L","a","r","g","e"," ","E","g","g","s">>
Generic == <<"G","e","n","e","r","i","c">>
Acme == <<"A","c","m","e">>
Milk == <<"M","i","l","k">>
Tuna == <<"T","u","n","a">>

\* Catalog rows: UPC, Brand, Product_Name and one passthrough column.
Products ==
    { [UPC |-> 1, Brand |-> Generic, Product_Name |-> LargeEggs12ct, Calories |-> 70],
      [UPC |-> 2, Brand |-> Acme, Product_Name |-> Milk, Calories |-> 150] }

InputColumns == <<"UPC", "Brand", "Product_Name", "Calories">>

Catalogs == UNION {[1..n -> Products] : n \in 0..MaxRows}

Failure(k) == [kind |-> k, description |-> Absent, promo |-> Absent, regular |-> Absent]

Candidates(descs, promos, regulars) ==
    {[kind |-> "ok", description |-> d, promo |-> p, regular |-> g] :
        d \in descs, p \in promos, g \in regulars}

\* What the product endpoint may answer during a run.
Responses ==
    {Failure(k) : k \in FailureKinds}
    \cup Candidates({Str(LargeEggs), Str(Tuna)},
                    {Absent, Num(0), Num(250)}, {Absent, Num(300)})

\* What the token endpoint may answer: an error (exception), a body whose
\* access_token is empty, a token.
AuthResponses == {"error", "empty", "ok"}

\* What the locations endpoint may answer: an error (exception), an empty
\* data list, a location whose locationId is empty, a location.
LocationResponses == {"error", "empty", "blank", "ok"}

-----------------------------------------------------------------------------
(* get_access_token (lines 26-43) and get_location_id (lines 45-58).       *)

get_access_token(r) ==
    CASE r = "error" -> None
      [] r = "empty" -> Str(<<>>)
      [] r = "ok" -> Str(<<"t","o","k">>)

get_location_id(r) ==
    CASE r = "error" -> None
      [] r = "empty" -> None
      [] r = "blank" -> Str(<<>>)
      [] r = "ok" -> Str(<<"0","1","4">>)

-----------------------------------------------------------------------------
(* The __main__ script (lines 125-173).                                    *)

Event(e, i) == [ev |-> e, row |-> i]

\* the positions inside the try block of lines 136-152
LoopPcs == {"iter", "call", "wait", "check", "set_price", "set_name",
            "set_score", "set_source", "append", "sleep"}

InitRun ==
    /\ pc = "auth"
    /\ token = None
    /\ location_id = None
    /\ catalog \in Catalogs
    /\ idx = 0
    /\ row = None
    /\ brand = None
    /\ name = None
    /\ resp = None
    /\ sp = None
    /\ ret = None
    /\ results = None
    /\ output = None
    /\ interrupted = FALSE
    /\ inflight = 0
    /\ log = <<>>
    /\ outcomes = [i \in 1..Len(catalog) |-> None]
    /\ a = <<>>
    /\ b = <<>>
    /\ sim = None

\* lines 126-127
Authenticate ==
    /\ pc = "auth"
    /\ \E r \in AuthResponses :
        /\ token' = get_access_token(r)
        /\ pc' = IF Truthy(get_access_token(r)) THEN "locate" ELSE "exited"
    /\ log' = Append(log, Event("auth", 0))
    /\ UNCHANGED <<location_id, catalog, idx, row, brand, name, resp, sp, ret,
                   results, output, interrupted, inflight, outcomes, a, b, sim>>

\* Store resolution whose result is not checked.
ResolveStore_unchecked ==
    /\ pc = "locate"
    /\ \E r \in LocationResponses :
        /\ location_id' = get_location_id(r)
        /\ pc' = "start"
    /\ log' = Append(log, Event("locate", 0))
    /\ UNCHANGED <<token, catalog, idx, row, brand, name, resp, sp, ret,
                   results, output, interrupted, inflight, outcomes, a, b, sim>>

\* lines 129-131
ResolveStore ==
    /\ pc = "locate"
    /\ \E r \in LocationResponses :
        /\ location_id' = get_location_id(r)
        /\ pc' = IF Truthy(get_location_id(r)) THEN "start" ELSE "exited"
    /\ log' = Append(log, Event("locate", 0))
    /\ UNCHANGED <<token, catalog, idx, row, brand, name, resp, sp, ret,
                   results, output, interrupted, inflight, outcomes, a, b, sim>>

\* lines 133-136
StartSearch ==
    /\ pc = "start"
    /\ results' = List(<<>>)
    /\ pc' = "iter"
    /\ UNCHANGED <<token, location_id, catalog, idx, row, brand, name, resp, sp,
                   ret, output, interrupted, inflight, log, outcomes, a, b, sim>>

\* lines 138-140: the iterator yields the next row, or the loop ends
NextRow ==
    /\ pc = "iter"
    /\ IF idx < Len(catalog)
       THEN /\ idx' = idx + 1
            /\ row' = ("index" :> (idx + 1)) @@ catalog[idx + 1]
            /\ brand' = Str(catalog[idx + 1].Brand)
            /\ name' = Str(catalog[idx + 1].Product_Name)
            /\ pc' = "call"
       ELSE /\ pc' = "save"
            /\ UNCHANGED <<idx, row, brand, name>>
    /\ UNCHANGED <<token, location_id, catalog, resp, sp, ret, results, output,
                   interrupted, inflight, log, outcomes, a, b, sim>>

\* line 142 down to line 82: the request is sent
IssueSearch ==
    /\ pc = "call"
    /\ inflight' = inflight + 1
    /\ log' = Append(log, Event("search", idx))
    /\ pc' = "wait"
    /\ UNCHANGED <<token, location_id, catalog, idx, row, brand, name, resp, sp,
                   ret, results, output, interrupted, outcomes, a, b, sim>>

\* lines 82-106 and the assignment of line 142; an exception escaping
\* search_product would not be a KeyboardInterrupt and would end the script
SearchReturns ==
    /\ pc = "wait"
    /\ \E r \in Responses :
        LET call == search_product(brand.val, name.val, r)
        IN  /\ resp' = r
            /\ IF call.escaped
               THEN pc' = "crashed" /\ UNCHANGED <<ret, outcomes>>
               ELSE /\ pc' = "check"
                    /\ ret' = call.ret
                    /\ outcomes' = [outcomes EXCEPT ![idx] = call.ret]
    /\ inflight' = inflight - 1
    /\ UNCHANGED <<token, location_id, catalog, idx, row, brand, name, sp,
                   results, output, interrupted, log, a, b, sim>>

\* The pacing delay placed inside the `if price:` block.
CheckPrice_sleep_inside_if ==
    /\ pc = "check"
    /\ pc' = IF Truthy(ret.price) THEN "set_price" ELSE "iter"
    /\ UNCHANGED <<token, location_id, catalog, idx, row, brand, name, resp, sp,
                   ret, results, output, interrupted, inflight, log, outcomes,
                   a, b, sim>>

\* line 144
CheckPrice ==
    /\ pc = "check"
    /\ pc' = IF Truthy(ret.price) THEN "set_price" ELSE "sleep"
    /\ UNCHANGED <<token, location_id, catalog, idx, row, brand, name, resp, sp,
                   ret, results, output, interrupted, inflight, log, outcomes,
                   a, b, sim>>

SetField(at, col, v, next) ==
    /\ pc = at
    /\ row' = (col :> v) @@ row
    /\ pc' = next
    /\ UNCHANGED <<token, location_id, catalog, idx, brand, name, resp, sp,
                   ret, results, output, interrupted, inflight, log, outcomes,
                   a, b, sim>>

\* The row appended right after its Price is set, before the other fields.
SetPrice_append_early == SetField("set_price", "Price", ret.price.val, "append")

\* line 145
SetPrice == SetField("set_price", "Price", ret.price.val, "set_name")
\* line 146
SetKrogerName == SetField("set_name", "Kroger_Name", ret.kroger_name.val, "set_score")
\* line 147
SetMatchScore == SetField("set_score", "Match_Score", ret.score, "set_source")
\* line 148
SetPriceSource == SetField("set_source", "Price_Source", "Kroger API", "append")

\* line 149
AppendRow ==
    /\ pc = "append"
    /\ results' = List(Append(results.val, row))
    /\ pc' = "sleep"
    /\ UNCHANGED <<token, location_id, catalog, idx, row, brand, name, resp, sp,
                   ret, output, interrupted, inflight, log, outcomes, a, b, sim>>

\* A rejected row searched again after the delay.
Sleep_then_retry ==
    /\ pc = "sleep"
    /\ log' = Append(log, Event("sleep", idx))
    /\ pc' = IF Truthy(ret.price) THEN "iter" ELSE "call"
    /\ UNCHANGED <<token, location_id, catalog, idx, row, brand, name, resp, sp,
                   ret, results, output, interrupted, inflight, outcomes, a, b, sim>>

\* line 152
Sleep ==
    /\ pc = "sleep"
    /\ log' = Append(log, Event("sleep", idx))
    /\ pc' = "iter"
    /\ UNCHANGED <<token, location_id, catalog, idx, row, brand, name, resp, sp,
                   ret, results, output, interrupted, inflight, outcomes, a, b, sim>>

\* lines 154-155: KeyboardInterrupt is raised at whatever statement of the
\* try block is executing (search_product's `except Exception` does not catch
\* it); the handler prints and control goes on to line 158.
KeyboardInterrupt ==
    /\ pc \in LoopPcs
    /\ interrupted' = TRUE
    /\ inflight' = 0
    /\ pc' = "save"
    /\ UNCHANGED <<token, location_id, catalog, idx, row, brand, name, resp, sp,
                   ret, results, output, log, outcomes, a, b, sim>>

OutputColumns == <<"UPC", "Brand", "Product_Name", "Price", "Kroger_Name",
                   "Match_Score", "Price_Source">>

InSeq(x, s) == \E i \in 1..Len(s) : s[i] = x

RECURSIVE Without(_, _)
Without(s, t) ==
    IF s = <<>> THEN <<>>
    ELSE IF InSeq(Head(s), t) THEN Without(Tail(s), t)
    ELSE <<Head(s)>> \o Without(Tail(s), t)

\* lines 159-167: the frame's columns are the enriched rows' columns
final_df(rows) ==
    [kind |-> "table",
     columns |-> OutputColumns \o Without(InputColumns \o OutputColumns, OutputColumns),
     rows |-> rows]

\* lines 158-173
Save ==
    /\ pc = "save"
    /\ output' = IF Truthy(results) THEN final_df(results.val) ELSE None
    /\ pc' = "done"
    /\ UNCHANGED <<token, location_id, catalog, idx, row, brand, name, resp, sp,
                   ret, results, interrupted, inflight, log, outcomes, a, b, sim>>

Next ==
    \/ Authenticate
    \/ ResolveStore
    \/ StartSearch
    \/ NextRow
    \/ IssueSearch
    \/ SearchReturns
    \/ CheckPrice
    \/ SetPrice
    \/ SetKrogerName
    \/ SetMatchScore
    \/ SetPriceSource
    \/ AppendRow
    \/ Sleep
    \/ KeyboardInterrupt
    \/ Save

Spec == InitRun /\ [][Next]_vars

-----------------------------------------------------------------------------
(* search_product on its own: one call on inputs drawn from bounded sets.  *)

RECURSIVE StringsUpTo(_, _)
StringsUpTo(alphabet, n) ==
    IF n = 0 THEN {<<>>}
    ELSE LET shorter == StringsUpTo(alphabet, n - 1)
         IN  shorter \cup {Append(s, c) : s \in {t \in shorter : Len(t) = n - 1},
                                           c \in alphabet}

NameAlphabet == {"a", Quote, Comma, " ", "-"}

SearchNames == StringsUpTo(NameAlphabet, MaxNameLen) \cup {LargeEggs12ct, Milk}

SearchBrands ==
    { Generic, Acme, <<>>,
      <<"n","a","n">>, <<"N","a","N">>, <<"N","O","N","E">>,
      <<"U","n","k","n","o","w","n">>, <<"g","e","n","e","r","i","c","s">>,
      <<" ","n","o","n","e">> }

PriceFields == {Absent, None, Num(0), Num(250), Num(300)}

SearchResponses ==
    {Failure(k) : k \in FailureKinds}
    \cup Candidates({Absent, None, Str(<<>>), Str(<<"M">>), Str(LargeEggs), Str(Tuna)},
                    PriceFields, PriceFields)

TunaOnPromo == [kind |-> "ok", description |-> Str(Tuna),
                promo |-> Num(250), regular |-> Num(300)]

InitSearch ==
    /\ pc = "search_product"
    /\ \/ /\ brand \in {Str(x) : x \in SearchBrands}
          /\ name \in {Str(x) : x \in SearchNames}
          /\ resp = TunaOnPromo
       \/ /\ \E p \in Products :
                brand = Str(p.Brand) /\ name = Str(p.Product_Name)
          /\ resp \in SearchResponses
    /\ sp = None
    /\ ret = None
    /\ token = Str(<<"t","o","k">>)
    /\ location_id = Str(<<"0","1","4">>)
    /\ catalog = <<>>
    /\ idx = 0
    /\ row = None
    /\ results = None
    /\ output = None
    /\ interrupted = FALSE
    /\ inflight = 0
    /\ log = <<>>
    /\ outcomes = <<>>
    /\ a = <<>>
    /\ b = <<>>
    /\ sim = None

\* lines 61-106
SearchProduct ==
    /\ pc = "search_product"
    /\ sp' = search_product(brand.val, name.val, resp).locals
    /\ ret' = search_product(brand.val, name.val, resp).ret
    /\ pc' = IF search_product(brand.val, name.val, resp).escaped
             THEN "crashed" ELSE "returned"
    /\ UNCHANGED <<token, location_id, catalog, idx, row, brand, name, resp,
                   results, output, interrupted, inflight, log, outcomes,
                   a, b, sim>>

NextSearch == SearchProduct

SpecSearch == InitSearch /\ [][NextSearch]_vars

-----------------------------------------------------------------------------
(* The similarity function on its own, applied in both argument orders.    *)

SimAlphabet == {"a", "b", "c"}

SimStrings == StringsUpTo(SimAlphabet, MaxSimLen)

InitSim ==
    /\ pc = "ratio"
    /\ a \in SimStrings
    /\ b \in SimStrings
    /\ sim = None
    /\ brand = None
    /\ name = None
    /\ resp = None
    /\ sp = None
    /\ ret = None
    /\ token = None
    /\ location_id = None
    /\ catalog = <<>>
    /\ idx = 0
    /\ row = None
    /\ results = None
    /\ output = None
    /\ interrupted = FALSE
    /\ inflight = 0
    /\ log = <<>>
    /\ outcomes = <<>>

\* line 92, and the same call with its arguments exchanged
Compare ==
    /\ pc = "ratio"
    /\ sim' = [ab |-> ratio(a, b), ba |-> ratio(b, a)]
    /\ pc' = "returned"
    /\ UNCHANGED <<token, location_id, catalog, idx, row, brand, name, resp, sp,
                   ret, results, output, interrupted, inflight, log, outcomes,
                   a, b>>

NextSim == Compare

SpecSim == InitSim /\ [][NextSim]_vars

-----------------------------------------------------------------------------
(* Properties.                                                             *)

Accepted(o) == o.price.kind = "num" /\ o.price.val > 0

AcceptedRows ==
    {i \in 1..Len(catalog) : outcomes[i] # None /\ Accepted(outcomes[i])}

AccumulatorRows == IF results = None THEN <<>> ELSE results.val

OutputRows == IF output = None THEN <<>> ELSE output.rows

InOutput(i) == \E k \in 1..Len(OutputRows) : OutputRows[k].index = i

IsSearch(e) == e.ev = "search"

Searches == SelectSeq(log, IsSearch)

Positions(e) == {k \in 1..Len(log) : log[k].ev = e}

\* C1: when output assembly has run, every row for which search_product
\* returned an outcome is in the output table iff that outcome was accepted.
C1_OutputIffAccepted ==
    pc = "done" =>
        \A i \in 1..Len(catalog) :
            outcomes[i] # None => (InOutput(i) <=> Accepted(outcomes[i]))

\* C2: after an interrupt inside the loop, output assembly has run and the
\* output table holds exactly the rows accepted so far, each of them once.
C2_InterruptKeepsAccepted ==
    (pc = "done" /\ interrupted) =>
        /\ Len(OutputRows) = Cardinality(AcceptedRows)
        /\ \A i \in AcceptedRows :
            Cardinality({k \in 1..Len(OutputRows) : OutputRows[k].index = i}) = 1

\* The price C3 describes: promo when present and nonzero, else regular when
\* present, else absent.
DescribedPrice(product) ==
    IF product.promo.kind = "num" /\ product.promo.val # 0 THEN product.promo
    ELSE IF product.regular.kind = "num" THEN product.regular
    ELSE Absent

\* C3: for a present search result with numeric price fields, the extracted
\* price is the promotional price when present and nonzero, otherwise the
\* regular price when present, otherwise no price (a price of 0 counts as
\* none: it can never be accepted).
C3_ExtractedPrice ==
    ( /\ pc = "returned"
      /\ resp.kind = "ok"
      /\ resp.promo.kind \in {"absent", "num"}
      /\ resp.regular.kind \in {"absent", "num"}
      /\ sp.price # None )
    => IF DescribedPrice(resp) = Absent
       THEN sp.price.val = 0
       ELSE sp.price = DescribedPrice(resp)

\* C4: search_product always returns to its caller; after a transport error,
\* a timeout, a non-200 answer, a malformed body or an empty result list it
\* returns the rejected tuple, and the loop goes on (to the pacing delay and
\* then to the next row) unless it is interrupted.
C4_FailuresRejected ==
    [][ /\ pc' # "crashed"
        /\ (pc = "wait" /\ ~interrupted') => pc' = "check"
        /\ (pc = "wait" /\ pc' = "check" /\ resp'.kind \in FailureKinds)
              => (ret' = Rejected /\ outcomes'[idx] = Rejected)
        /\ (pc = "check" /\ resp.kind \in FailureKinds /\ ~interrupted')
              => pc' = "sleep"
        /\ (pc = "sleep" /\ ~interrupted') => pc' = "iter" ]_vars

\* C4's case: row 1 was rejected, the loop went on, and row 2's search got a
\* malformed body and returned the rejected tuple.
C4_Witness ==
    /\ pc = "check"
    /\ idx = 2
    /\ outcomes[1] = Rejected
    /\ resp.kind = "malformed"
    /\ ret = Rejected
    /\ ~interrupted

\* C5: once authentication or store resolution has failed, the script has
\* exited: no product search was issued, the accumulator does not exist and
\* there is no output.
C5_SetupFailureAborts ==
    ( \/ pc # "auth" /\ ~Truthy(token)
      \/ pc \notin {"auth", "locate"} /\ ~Truthy(location_id) )
    => /\ pc = "exited"
       /\ Searches = <<>>
       /\ inflight = 0
       /\ results = None
       /\ output = None

\* C5's case: the token was obtained, the store was not resolved.
C5_Witness ==
    /\ pc = "exited"
    /\ Truthy(token)
    /\ ~Truthy(location_id)
    /\ Len(log) = 2
    /\ Len(catalog) > 0

\* Case-insensitive equality of two characters, read off the letter tables.
SameLetter(c, d) ==
    \/ c = d
    \/ \E i \in 1..26 : {c, d} = {UpperLetters[i], LowerLetters[i]}

IsGenericBrand(br) ==
    \E g \in GenericBrands :
        Len(g) = Len(br) /\ \A i \in 1..Len(g) : SameLetter(br[i], g[i])

Stripped(nm) == SelectSeq(nm, LAMBDA c : c \notin {Quote, Comma})

SeparatorAt(s, n) == n + 3 <= Len(s) /\ SubSeq(s, n + 1, n + 3) = Separator

\* t is nm without quotes and commas, cut before the first " - "
IsCleanedName(t, nm) ==
    LET s == Stripped(nm)
    IN  \E n \in 0..Len(s) :
            /\ t = SubSeq(s, 1, n)
            /\ \A m \in 0..(n - 1) : ~SeparatorAt(s, m)
            /\ SeparatorAt(s, n) \/ n = Len(s)

\* C6: the query term is the cleaned name alone when the brand is, ignoring
\* case, one of nan, unknown, generic, none, and brand + " " + cleaned name
\* otherwise; brand "Generic" with name "Large Eggs - 12ct" gives "Large Eggs".
C6_QueryTerm ==
    pc = "returned" =>
        LET term == sp.search_term.val
        IN  /\ IsGenericBrand(brand.val) => IsCleanedName(term, name.val)
            /\ ~IsGenericBrand(brand.val) =>
                 /\ Len(term) >= Len(brand.val) + 1
                 /\ SubSeq(term, 1, Len(brand.val) + 1) = brand.val \o <<" ">>
                 /\ IsCleanedName(SubSeq(term, Len(brand.val) + 2, Len(term)), name.val)
            /\ (brand.val = Generic /\ name.val = LargeEggs12ct) => term = LargeEggs

\* C6's case: the term built for brand "Generic", name "Large Eggs - 12ct".
C6_Witness ==
    /\ pc = "returned"
    /\ brand = Str(Generic)
    /\ name = Str(LargeEggs12ct)
    /\ sp.search_term = Str(LargeEggs)

SleptBetweenSearches ==
    \A i, j \in Positions("search") :
        i < j => \E k \in Positions("sleep") : i < k /\ k < j /\ log[k].row = log[i].row

\* C7: every row's search is followed by a completed pacing delay before the
\* loop takes the next row, whatever the search returned; any two searches
\* have a completed delay between them; at most one request is in flight.
C7_Pacing ==
    /\ SleptBetweenSearches
    /\ inflight <= 1
    /\ (pc = "iter" /\ idx > 0) => log[Len(log)] = Event("sleep", idx)
    /\ pc = "wait" => Cardinality(Positions("sleep")) = idx - 1

\* C7's case: a rejected row and an accepted row, each followed by its delay.
C7_Witness ==
    /\ pc = "done"
    /\ ~interrupted
    /\ Len(catalog) = 2
    /\ outcomes[1] = Rejected
    /\ Accepted(outcomes[2])
    /\ Cardinality(Positions("sleep")) = 2

\* C8: similarity(a, b) = similarity(b, a) for all strings a and b.
C8_Symmetric ==
    pc = "returned" => RatEq(sim.ab, sim.ba)

IsOne(r) == r.num = r.den

\* C8 as amended: the two orders agree on whether the similarity is 1.0 and
\* on whether it is 0.0, and divide by the same combined length.
C8_SymmetricAtExtremes ==
    pc = "returned" =>
        /\ IsOne(sim.ab) <=> IsOne(sim.ba)
        /\ IsOne(sim.ab) <=> a = b
        /\ sim.ab.num = 0 <=> sim.ba.num = 0
        /\ sim.ab.num = 0 <=> (a \o b # <<>> /\ \A i \in 1..Len(a), j \in 1..Len(b) : a[i] # b[j])
        /\ sim.ab.den = sim.ba.den

\* C8's case: different strings sharing characters, compared in both orders.
C8_Witness ==
    /\ pc = "returned"
    /\ a = <<"a", "b", "a">>
    /\ b = <<"b", "c", "a">>
    /\ sim.ab.num > 0
    /\ sim.ba.num > 0
    /\ ~IsOne(sim.ab)

EnrichmentFields == {"Price", "Kroger_Name", "Match_Score", "Price_Source"}

\* r carries the four fields of the accepted outcome of its own row
RowComplete(r) ==
    /\ EnrichmentFields \subseteq DOMAIN r
    /\ outcomes[r.index] # None
    /\ Accepted(outcomes[r.index])
    /\ r.Price = outcomes[r.index].price.val
    /\ r.Price > 0
    /\ r.Kroger_Name = outcomes[r.index].kroger_name.val
    /\ r.Match_Score = outcomes[r.index].score
    /\ r.Price_Source = "Kroger API"

AllRowsComplete ==
    /\ \A k \in 1..Len(AccumulatorRows) : RowComplete(AccumulatorRows[k])
    /\ \A k \in 1..Len(OutputRows) : RowComplete(OutputRows[k])

\* C9: every step leaves the accumulator as it is or appends one row at its
\* end, and every row of the accumulator and of the output carries all four
\* enrichment fields, taken from the accepted outcome of that row, Price > 0.
C9_AppendOnlyCompleteRows ==
    [][ /\ \/ AccumulatorRows' = AccumulatorRows
           \/ /\ Len(AccumulatorRows') = Len(AccumulatorRows) + 1
              /\ SubSeq(AccumulatorRows', 1, Len(AccumulatorRows)) = AccumulatorRows
        /\ AllRowsComplete' ]_vars

\* C9's case: an interrupt taken while the second row had only some of its
\* fields set, the first row being in the accumulator.
C9_Witness ==
    /\ pc = "save"
    /\ interrupted
    /\ Len(AccumulatorRows) = 1
    /\ idx = 2
    /\ "Price" \in DOMAIN row
    /\ "Price_Source" \notin DOMAIN row

\* C10: one authentication request, first; at most one store-resolution
\* request, right after it and before every search; the k-th search is the
\* search of row k, so rows are searched in catalog order and none twice; a
\* run whose loop ends without an interrupt has searched every row once.
C10_CallOrder ==
    /\ pc = "auth" => log = <<>>
    /\ pc # "auth" => (Positions("auth") = {1})
    /\ Positions("locate") \subseteq {2}
    /\ Searches # <<>> => (Positions("locate") = {2} /\ \A k \in Positions("search") : k > 2)
    /\ \A n \in 1..Len(Searches) : Searches[n].row = n
    /\ Len(Searches) <= Len(catalog)
    /\ (pc = "done" /\ ~interrupted) => Len(Searches) = Len(catalog)

\* C10's case: an uninterrupted run over two rows, both rejected.
C10_Witness ==
    /\ pc = "done"
    /\ ~interrupted
    /\ Len(catalog) = 2
    /\ outcomes[1] = Rejected
    /\ outcomes[2] = Rejected
    /\ Len(Searches) = 2

====
